---- MODULE Spec2Model ----
(***************************************************************************)
(* Order lifecycle of the Swissy backend: the Express handlers of          *)
(* routes/orders.js, routes/invoiceRoutes.js (and its earlier variants),   *)
(* routes/employees.js, over the Mongoose collections User, Order,         *)
(* Invoice and Notification.  One action per HTTP handler; a handler that  *)
(* answers 4xx/5xx before its first write only records its response.       *)
(***************************************************************************)
EXTENDS Integers, Sequences, FiniteSets, TLC

(* ---------------- bounds of the exploration ---------------- *)
MaxWrites == 1
MaxOrders == 5
MaxRequests == 2

(* ---------------- the seeded user directory ---------------- *)
None == "none"

(* null references to orders and invoices; ids are positive *)
NoOrder == 0
NoInvoice == 0
Admins == {"a1", "a2"}
Employees == {"e1", "e2"}
Customers == {"c1", "c2"}
UserIds == Admins \cup Employees \cup Customers

RoleOf(u) == IF u \in Admins THEN "admin" ELSE IF u \in Employees THEN "employee" ELSE "customer"

(* ---------------- schema enums ---------------- *)
OrderTypes == {"vector", "digitizing", "patches"}

StatusEnum == {"In Progress", "Waiting for Approval", "Design Approved", "In Revision",
               "Manufacturing", "Revision Ready", "Revision Approved", "Completed",
               "Rejected", "Cancelled", "Superseded"}

NotificationTypes == {"order_created", "order_status_changed", "order_completed",
                      "order_rejected", "order_assigned", "order_reassigned",
                      "employee_order_updated", "admin_note_added", "employee_performance",
                      "sample_uploaded", "revision_uploaded", "revision_requested",
                      "tracking_number_added", "employee_work_pending", "work_approved",
                      "work_rejected"}

VectorFields == {"designName", "fileFormat"}
DigitizingHandlerFields == {"length", "width", "unit"}
DigitizingSchemaFields == {"designName", "PlacementofDesign", "CustomMeasurements"}
PatchFields == {"patchDesignName", "patchStyle", "patchAmount", "patchUnit", "patchLength",
                "patchWidth", "patchBackingStyle", "patchQuantity", "patchAddress"}

(* fields the schema requires for an order of type t *)
SchemaRequired(t) ==
  IF t = "vector" THEN VectorFields
  ELSE IF t = "digitizing" THEN DigitizingSchemaFields
  ELSE IF t = "patches" THEN PatchFields
  ELSE {}

(* ---------------- the state ---------------- *)
VARIABLES users, orders, nextOrderId, invoices, nextInvoiceId, notifications, paypal, last, steps,
          inflight

vars == <<users, orders, nextOrderId, invoices, nextInvoiceId, notifications, paypal, last, steps,
          inflight>>

EmptyPendingWork ==
  [hasPendingWork |-> FALSE, pendingStatus |-> "", pendingFiles |-> <<>>, pendingReport |-> "",
   submittedBy |-> None, rejectionReason |-> "", wasRejected |-> FALSE]

(* a new Order document: the given data over the schema defaults *)
NewOrder(customer, type, fields) ==
  [customerId |-> customer, orderType |-> type, fields |-> fields, status |-> "In Progress",
   customerApprovalStatus |-> "pending", sampleImages |-> <<>>,
   parentOrderId |-> NoOrder, isRevision |-> FALSE, revisionNumber |-> 0, revisionReason |-> "",
   notes |-> <<>>, rejectedReason |-> "", report |-> "", trackingNumber |-> "",
   assignedTo |-> None, employeePendingWork |-> EmptyPendingWork,
   invoiceId |-> NoInvoice, hasInvoice |-> FALSE, invoiceStatus |-> "pending"]

(* Mongoose validation run by Order.create / order.save *)
ValidOrder(o) ==
  /\ o.orderType \in OrderTypes
  /\ SchemaRequired(o.orderType) \subseteq o.fields
  /\ o.status \in StatusEnum
  /\ o.customerApprovalStatus \in {"pending", "approved", "revision_requested"}
  /\ o.invoiceStatus \in {"pending", "paid", "cancelled"}

(* a Notification document; msg holds the values interpolated into its message,
   isRead has the schema's default *)
Notif(user, order, type, msg) ==
  [userId |-> user, orderId |-> order, type |-> type, msg |-> msg, isRead |-> FALSE]

NoText == <<>>

(* User.find({ role: 'admin' }) *)
AdminUsers == {u \in UserIds : users[u].exists /\ users[u].role = "admin"}

(* a fixed enumeration order of a set of users, as a cursor returns them *)
RECURSIVE SeqOfSet(_)
SeqOfSet(S) == IF S = {} THEN <<>> ELSE LET x == CHOOSE y \in S : TRUE IN <<x>> \o SeqOfSet(S \ {x})

NoTx == "no-tx"

(* the response of the last request: the handler, the sender, the document the
   request named, the status code, the notifications the handler created, and
   arg, the request parameter the handler acted on *)
Respond(op, actor, id, code, created) ==
  [op |-> op, actor |-> actor, id |-> id, code |-> code, created |-> created,
   arg |-> None, count |-> 0, tx |-> NoTx, queried |-> FALSE, mail |-> None]

(* ---------------- the payment provider (PayPal orders API) ---------------- *)
TxIds == {"t_done", "t_appr"}
UnknownTx == "t_void"
PayerOf(tx) == [payerId |-> IF tx = "t_done" THEN "payerA" ELSE "payerB",
                payerEmail |-> IF tx = "t_done" THEN "a@pp" ELSE "b@pp"]

(* the id of the capture the provider makes of an approved order *)
CaptureIdOf(tx) == IF tx = "t_appr" THEN "cap_appr" ELSE "cap_done"

NoPaymentDetails == [transactionId |-> None, payerId |-> None, payerEmail |-> None]

(* the database before any order was placed *)
EmptyDb ==
  [users |-> [u \in UserIds |-> [role |-> RoleOf(u), exists |-> TRUE, assignedOrders |-> {}]],
   orders |-> <<>>, nextOrderId |-> 1, notifications |-> <<>>]

(* the database after c1 placed vector order 1, c2 placed patches order 2, the admin
   assigned order 1 to e1 and set order 2 to Completed *)
SeededDb ==
  [users |-> [u \in UserIds |-> [role |-> RoleOf(u), exists |-> TRUE,
                                 assignedOrders |-> IF u = "e1" THEN {1} ELSE {}]],
   orders |-> <<[NewOrder("c1", "vector", VectorFields) EXCEPT !.assignedTo = "e1"],
                [NewOrder("c2", "patches", PatchFields) EXCEPT !.status = "Completed"]>>,
   nextOrderId |-> 3,
   notifications |-> <<Notif("c1", 1, "order_created", NoText)>> \o
                     [i \in 1..Cardinality(Admins) |->
                        Notif(SeqOfSet(Admins)[i], 1, "order_created", NoText)] \o
                     <<Notif("c2", 2, "order_created", NoText)>> \o
                     [i \in 1..Cardinality(Admins) |->
                        Notif(SeqOfSet(Admins)[i], 2, "order_created", NoText)] \o
                     <<Notif("e1", 1, "order_assigned", NoText),
                       Notif("c2", 2, "order_status_changed", <<"status", "Completed">>)>>]

(* SeededDb after e1 submitted work on order 1, c2 forked revision order 3 from
   order 2, and the admin invoiced order 1, uploaded a sample for order 3 and gave
   order 2 the tracking number TRK1 *)
WorkDb ==
  [users |-> SeededDb.users,
   orders |-> <<[SeededDb.orders[1] EXCEPT
                   !.employeePendingWork =
                      [hasPendingWork |-> TRUE, pendingStatus |-> "Waiting for Approval",
                       pendingFiles |-> <<[url |-> "w1", comments |-> ""]>>,
                       pendingReport |-> "stitched", submittedBy |-> "e1",
                       rejectionReason |-> "", wasRejected |-> FALSE],
                   !.invoiceId = 1, !.hasInvoice = TRUE],
                [SeededDb.orders[2] EXCEPT !.status = "Superseded", !.trackingNumber = "TRK1"],
                [NewOrder("c2", "patches", PatchFields) EXCEPT
                   !.parentOrderId = 2, !.isRevision = TRUE, !.revisionNumber = 1,
                   !.revisionReason = "darker",
                   !.notes = <<<<"Revision", 1, 2, "darker">>>>,
                   !.sampleImages = <<[url |-> "s1", type |-> "initial", comments |-> ""]>>,
                   !.status = "Waiting for Approval"]>>,
   nextOrderId |-> 4,
   notifications |-> SeededDb.notifications \o
                     [i \in 1..Cardinality(Admins) |->
                        Notif(SeqOfSet(Admins)[i], 1, "employee_work_pending", NoText)] \o
                     <<Notif(SeqOfSet(Admins)[1], 3, "revision_requested", NoText),
                       Notif("c2", 3, "sample_uploaded", NoText),
                       Notif("c2", 2, "tracking_number_added", <<"tracking", "TRK1">>)>>,
   invoices |-> <<[customerId |-> "c1", orderId |-> 1, orders |-> {},
                   paymentStatus |-> "unpaid", paymentDetails |-> NoPaymentDetails]>>,
   nextInvoiceId |-> 2]

(* WorkDb after c2 forked a second revision of order 2, order 4, and deleted the
   first, order 3, and the admin made out a second invoice for order 1 *)
LaterDb ==
  [users |-> WorkDb.users,
   orders |-> [x \in {1, 2, 4} |->
                 IF x = 1 THEN [WorkDb.orders[1] EXCEPT !.invoiceId = 2]
                 ELSE IF x = 2 THEN WorkDb.orders[2]
                 ELSE [NewOrder("c2", "patches", PatchFields) EXCEPT
                         !.parentOrderId = 2, !.isRevision = TRUE, !.revisionNumber = 2,
                         !.revisionReason = "darker",
                         !.notes = <<<<"Revision", 2, 2, "darker">>>>]],
   nextOrderId |-> 5,
   notifications |-> WorkDb.notifications \o
                     <<Notif(SeqOfSet(Admins)[1], 4, "revision_requested", NoText)>>,
   invoices |-> WorkDb.invoices \o
                <<[customerId |-> "c1", orderId |-> 1, orders |-> {},
                   paymentStatus |-> "unpaid", paymentDetails |-> NoPaymentDetails]>>,
   nextInvoiceId |-> 3]

NoInvoices == [invoices |-> <<>>, nextInvoiceId |-> 1]

Seeds == {EmptyDb @@ NoInvoices, SeededDb @@ NoInvoices, WorkDb}

Init ==
  /\ \E db \in Seeds :
       /\ users = db.users
       /\ orders = db.orders
       /\ nextOrderId = db.nextOrderId
       /\ notifications = db.notifications
       /\ invoices = db.invoices
       /\ nextInvoiceId = db.nextInvoiceId
  /\ paypal = [t \in TxIds |-> IF t = "t_done" THEN "COMPLETED" ELSE "APPROVED"]
  /\ last = Respond("init", None, NoOrder, 0, <<>>)
  /\ steps = 0
  /\ inflight = <<>>

(* A behaviour is followed up to its first rejected request or its first read: a
   rejected request and a read leave every collection as they were, so the
   requests that can follow them are the requests that could be made in their
   place. *)
Serving == last.code < 400 /\ last.op # "list"

(* a request that writes: one more write, within the exploration bound; the
   request is served to its end, none is left in flight *)
Write == steps < MaxWrites /\ steps' = steps + 1 /\ UNCHANGED inflight

OrderIds == DOMAIN orders
ExistingOrder(id) == id \in OrderIds

(* a request may name an order that exists or one that does not *)
MissingOrder == 99
OrderRefs == OrderIds \cup {MissingOrder}

(* a rejection that leaves a notification of the attempt behind *)
ReplyLogged(op, actor, id, code) ==
  /\ last' = Respond(op, None, id, code, <<>>)
  /\ notifications' = notifications \o <<Notif(actor, id, "admin_note_added", NoText)>>
  /\ UNCHANGED <<users, orders, nextOrderId, invoices, nextInvoiceId, paypal, steps, inflight>>

(* a rejected request: only the response changes *)
Reply(op, actor, id, code) ==
  /\ last' = Respond(op, None, id, code, <<>>)
  /\ UNCHANGED <<users, orders, nextOrderId, invoices, nextInvoiceId, notifications, paypal, steps, inflight>>

(* a rejected request, recording the request parameter the handler looked at *)
Refuse(op, id, arg, code) ==
  /\ last' = [Respond(op, None, id, code, <<>>) EXCEPT !.arg = arg]
  /\ UNCHANGED <<users, orders, nextOrderId, invoices, nextInvoiceId, notifications, paypal, steps, inflight>>

(* a request refused for who sent it: the response names the sender *)
Denied(op, actor, id, code) ==
  /\ last' = Respond(op, actor, id, code, <<>>)
  /\ UNCHANGED <<users, orders, nextOrderId, invoices, nextInvoiceId, notifications, paypal, steps, inflight>>

(* ---------------- the email step of a handler ---------------- *)
(* what became of the emails a handler sent: delivered, or the send threw *)
MailOutcomes == {"sent", "failed"}

(* an email step outside any try/catch: a send that throws reaches the handler's
   catch block *)
MailUncaught(code, mail) == IF mail = "failed" THEN 500 ELSE code

(* try { await send...Email(...) } catch (emailError) { console.error(...) }:
   the handler goes on to the response it was about to give *)
AfterMail(code, mail) == code

(* a handler that wrote and then sent its emails *)
Mailed(op, actor, id, arg, code, created, mail) ==
  /\ Write
  /\ last' = [Respond(op, actor, id, AfterMail(code, mail), created)
                EXCEPT !.arg = arg, !.mail = mail]

(* a handler that wrote: its response, and one more write *)
Done(op, actor, id, code, created) ==
  /\ Write
  /\ last' = Respond(op, actor, id, code, created)

(* the same, recording the request parameter the handler acted on *)
DoneWith(op, actor, id, arg, code, created) ==
  /\ Write
  /\ last' = [Respond(op, actor, id, code, created) EXCEPT !.arg = arg]

(* ---------------- POST /api/orders ---------------- *)
CreateBodies ==
  { [orderType |-> "vector", hasFiles |-> TRUE, present |-> VectorFields],
    [orderType |-> "patches", hasFiles |-> TRUE, present |-> PatchFields],
    [orderType |-> "patches", hasFiles |-> TRUE, present |-> PatchFields \ {"patchAddress"}],
    [orderType |-> "digitizing", hasFiles |-> TRUE,
     present |-> DigitizingHandlerFields \cup DigitizingSchemaFields],
    [orderType |-> "digitizing", hasFiles |-> TRUE, present |-> DigitizingHandlerFields],
    [orderType |-> "vector", hasFiles |-> FALSE, present |-> VectorFields],
    [orderType |-> "banner", hasFiles |-> TRUE, present |-> VectorFields] }

(* the fields the handler copies into orderData for the type *)
CopiedFields(body) ==
  IF body.orderType = "vector" THEN body.present \cap VectorFields
  ELSE IF body.orderType = "digitizing"
       THEN body.present \cap (DigitizingHandlerFields \cup DigitizingSchemaFields)
  ELSE body.present \cap PatchFields

(* the type-specific check of the handler: the fields it finds missing *)
HandlerMissing(body) ==
  IF body.orderType = "vector" THEN VectorFields \ body.present
  ELSE IF body.orderType = "digitizing" THEN DigitizingHandlerFields \ body.present
  ELSE PatchFields \ body.present

(* what the handler saw of a create request: the body, and the fields the 400
   message lists as missing *)
Seen(body, listed) == [body |-> body, listed |-> listed]

CreateOrder(actor, body, mail) ==
  /\ Serving
  /\ IF body.orderType \notin OrderTypes THEN Refuse("create", NoOrder, Seen(body, {}), 400)
        ELSE IF ~body.hasFiles THEN Refuse("create", NoOrder, Seen(body, {}), 400)
        ELSE IF HandlerMissing(body) # {}
             THEN Refuse("create", NoOrder,
                         Seen(body, IF body.orderType = "patches" THEN HandlerMissing(body) ELSE {}),
                         400)
        ELSE LET o == NewOrder(actor, body.orderType, CopiedFields(body)) IN
             IF ~ValidOrder(o) THEN Refuse("create", NoOrder, Seen(body, {}), 500)
             ELSE /\ nextOrderId <= MaxOrders
                  /\ LET id == nextOrderId
                         created == <<Notif(actor, id, "order_created", NoText)>> \o
                                    [i \in 1..Cardinality(AdminUsers) |->
                                       Notif(SeqOfSet(AdminUsers)[i], id, "order_created", NoText)]
                     IN /\ Mailed("create", actor, id, Seen(body, {}), 201, created, mail)
                        /\ orders' = [x \in OrderIds \cup {id} |-> IF x = id THEN o ELSE orders[x]]
                        /\ nextOrderId' = nextOrderId + 1
                        /\ notifications' = notifications \o created
                        /\ UNCHANGED <<users, invoices, nextInvoiceId, paypal>>

(* ---------------- GET /api/orders ---------------- *)
(* Order.find(filter) with filter {} for an admin and { customerId } for every
   other sender; the documents are returned whole, no field is deselected *)
ListOrders(actor) ==
  /\ Serving
  /\ LET listed == IF users[actor].role = "admin" THEN OrderIds
                   ELSE {x \in OrderIds : orders[x].customerId = actor}
     IN last' = [Respond("list", actor, NoOrder, 200, <<>>)
                   EXCEPT !.arg = [x \in listed |-> orders[x]],
                          !.count = Cardinality(listed)]
  /\ UNCHANGED <<users, orders, nextOrderId, invoices, nextInvoiceId, notifications, paypal, steps, inflight>>

(* ---------------- the socket events of the handlers ---------------- *)
(* the handlers that end with io.to(`user-${order.customerId}`).emit('orderUpdate', order) *)
CustomerRoomOps ==
  {"update", "approve", "revision-request", "revision-approve", "sample", "revision",
   "admin-approve-work"}

(* the orderUpdate events the last request pushed: the room, and the payload,
   which is the order document the handler had just saved *)
OrderUpdateEvents ==
  IF last.code = 200 /\ last.op \in CustomerRoomOps /\ last.id \in OrderIds
  THEN {[room |-> orders[last.id].customerId, order |-> orders[last.id]]}
  ELSE {}

(* ---------------- PATCH /api/orders/assign/:id ---------------- *)
IsEmployee(u) == u \in UserIds /\ users[u].exists /\ users[u].role = "employee"

(* an update that adds nothing *)
AddNothing(us, u, id) == us

(* an update that pulls nothing *)
PullNothing(us, u, id) == us

(* User.findByIdAndUpdate(u, { $pull: { assignedOrders: id } }) *)
PullOrder(us, u, id) ==
  IF u \in UserIds /\ us[u].exists THEN [us EXCEPT ![u].assignedOrders = @ \ {id}] ELSE us

(* User.findByIdAndUpdate(u, { $addToSet: { assignedOrders: id } }) *)
AddOrder(us, u, id) ==
  IF u \in UserIds /\ us[u].exists THEN [us EXCEPT ![u].assignedOrders = @ \cup {id}] ELSE us

(* the update of the new assignee alone *)
AddWithoutPull(us, prev, employeeId, id) == AddOrder(us, employeeId, id)

(* the User updates of one assignment: pull from the previous assignee, add to the new *)
Reassign(us, prev, employeeId, id) ==
  AddOrder(IF prev # None /\ prev # employeeId THEN PullOrder(us, prev, id) ELSE us, employeeId, id)

Assign(actor, id, employeeId, mail) ==
  /\ Serving
  /\ IF users[actor].role # "admin" THEN Reply("assign", actor, id, 403)
        ELSE IF employeeId = None THEN Reply("assign", actor, id, 400)
        ELSE IF ~IsEmployee(employeeId) THEN Reply("assign", actor, id, 400)
        ELSE IF ~ExistingOrder(id) THEN Reply("assign", actor, id, 404)
        ELSE LET previousAssigned == orders[id].assignedTo
                 created == <<Notif(employeeId, id, "order_assigned", NoText)>>
             IN /\ Mailed("assign", actor, id, employeeId, 200, created, mail)
                /\ orders' = [orders EXCEPT ![id].assignedTo = employeeId]
                /\ users' = Reassign(users, previousAssigned, employeeId, id)
                /\ notifications' = notifications \o created
                /\ UNCHANGED <<nextOrderId, invoices, nextInvoiceId, paypal>>

(* ---------------- PATCH /api/orders/bulk-assign ---------------- *)
(* the ids of a set in ascending order *)
RECURSIVE SortedIds(_)
SortedIds(S) ==
  IF S = {} THEN <<>>
  ELSE LET m == CHOOSE x \in S : \A y \in S : x <= y IN <<m>> \o SortedIds(S \ {m})

(* the loop body applied to the orders of ids, one after the other; the loop has
   no try/catch of its own: when o.save() of an order throws, the orders after
   it are not reached *)
RECURSIVE BulkLoop(_, _, _, _, _)
BulkLoop(ids, employeeId, failing, us, os) ==
  IF ids = <<>> THEN [users |-> us, orders |-> os, created |-> <<>>, threw |-> FALSE]
  ELSE LET id == Head(ids)
           prev == os[id].assignedTo
           updated == Reassign(us, prev, employeeId, id)
       IN IF id \in failing
          THEN [users |-> updated, orders |-> os, created |-> <<>>, threw |-> TRUE]
          ELSE LET rest == BulkLoop(Tail(ids), employeeId, failing, updated,
                                    [os EXCEPT ![id].assignedTo = employeeId])
               IN [rest EXCEPT !.created = <<Notif(employeeId, id, "order_assigned", NoText)>> \o @]

(* the orderIds arrays of the requests *)
BulkSelections == {{}, {1}, {1, 2}, {2, MissingOrder}, {MissingOrder}}

(* the orders whose save() throws while a request is served (a write the
   database refuses) *)
SaveFailures == {{}, {1}, {2}}

(* what a bulk-assign request asked for, and the saves that threw *)
BulkRequest(orderIds, employeeId, failing) ==
  [orderIds |-> orderIds, employeeId |-> employeeId, failing |-> failing]

BulkAssign(actor, orderIds, employeeId, failing) ==
  /\ Serving
  /\ IF users[actor].role # "admin" THEN Reply("bulk-assign", actor, NoOrder, 403)
        ELSE IF orderIds = {} THEN Reply("bulk-assign", actor, NoOrder, 400)
        ELSE IF employeeId = None THEN Reply("bulk-assign", actor, NoOrder, 400)
        ELSE IF ~IsEmployee(employeeId) THEN Reply("bulk-assign", actor, NoOrder, 400)
        ELSE LET found == orderIds \cap OrderIds IN
             IF found = {} THEN Reply("bulk-assign", actor, NoOrder, 404)
             ELSE LET r == BulkLoop(SortedIds(found), employeeId, failing, users, orders) IN
                  /\ Write
                  /\ users' = r.users
                  /\ orders' = r.orders
                  /\ notifications' = notifications \o r.created
                  /\ last' = [Respond("bulk-assign", actor, NoOrder,
                                      IF r.threw THEN 500 ELSE 200, r.created)
                                EXCEPT !.arg = BulkRequest(orderIds, employeeId, failing),
                                       !.count = IF r.threw THEN 0 ELSE Cardinality(found)]
                  /\ UNCHANGED <<nextOrderId, invoices, nextInvoiceId, paypal>>

(* ---------------- PATCH /:id/approve, /:id/revision-request, /:id/revision-approve ---------------- *)
Absent == "absent"

CustomerFeedback(op, actor, id, comments) ==
  /\ Serving
  /\ /\ op \in {"approve", "revision-request", "revision-approve"}
     /\ IF ~ExistingOrder(id) THEN Reply(op, actor, id, 404)
        ELSE IF orders[id].customerId # actor THEN Reply(op, actor, id, 403)
        ELSE /\ Done(op, actor, id, 200, <<>>)
             /\ orders' = [orders EXCEPT
                    ![id].customerApprovalStatus =
                        IF op = "revision-request" THEN "revision_requested" ELSE "approved",
                    ![id].notes =
                        IF op = "revision-request" /\ comments # Absent
                        THEN @ \o <<"Revision Request", comments>> ELSE @]
             /\ UNCHANGED <<users, nextOrderId, invoices, nextInvoiceId, notifications, paypal>>

(* ---------------- PUT /api/orders/:id ---------------- *)
(* a request body: the properties the handler reads, and orderType and the
   type-specific fields, which a body may carry as well *)
UpdateBody(status, rejectedReason, report, trackingNumber, notes, orderType, fields) ==
  [status |-> status, rejectedReason |-> rejectedReason, report |-> report,
   trackingNumber |-> trackingNumber, notes |-> notes, orderType |-> orderType,
   fields |-> fields]

UpdateBodies ==
  { UpdateBody("Completed", Absent, Absent, Absent, Absent, Absent, {}),
    UpdateBody("In Progress", Absent, "checked", Absent, Absent, Absent, {}),
    UpdateBody("Rejected", "bad file", Absent, Absent, "n1", "patches", PatchFields),
    UpdateBody("Shipped", Absent, Absent, Absent, Absent, Absent, {}),
    UpdateBody(Absent, Absent, Absent, "TRK1", Absent, Absent, {}),
    UpdateBody(Absent, Absent, Absent, "", Absent, Absent, {}),
    UpdateBody("Completed", Absent, Absent, "TRK1", Absent, "vector", {}),
    UpdateBody(Absent, Absent, Absent, Absent, "n1", "digitizing", {}) }

(* the mass assignment Object.assign(order, req.body) *)
AssignBody(order, body) ==
  [order EXCEPT
     !.status = IF body.status # Absent THEN body.status ELSE @,
     !.rejectedReason = IF body.rejectedReason # Absent THEN body.rejectedReason ELSE @,
     !.report = IF body.report # Absent THEN body.report ELSE @,
     !.trackingNumber = IF body.trackingNumber # Absent THEN body.trackingNumber ELSE @,
     !.orderType = IF body.orderType # Absent THEN body.orderType ELSE @,
     !.fields = @ \cup body.fields]

(* the four properties the staff branch copies from the body into the order *)
ApplyUpdate(order, body) ==
  [order EXCEPT
     !.status = IF body.status # Absent THEN body.status ELSE @,
     !.rejectedReason = IF body.rejectedReason # Absent THEN body.rejectedReason ELSE @,
     !.report = IF body.report # Absent THEN body.report ELSE @,
     !.trackingNumber = IF body.trackingNumber # Absent THEN body.trackingNumber ELSE @]

(* a notification whenever the body carries a status *)
StatusGiven(status, previousStatus) == status # Absent

(* status && status !== previousStatus *)
StatusChanged(status, previousStatus) == status # Absent /\ status # previousStatus

(* a tracking notification for orders of every type *)
TrackingGiven(trackingNumber, previousTrackingNumber, order) ==
  trackingNumber # Absent /\ trackingNumber # "" /\ trackingNumber # previousTrackingNumber

(* trackingNumber && trackingNumber !== previousTrackingNumber && order.orderType === 'patches':
   an absent and an empty trackingNumber are both falsy *)
TrackingChanged(trackingNumber, previousTrackingNumber, order) ==
  /\ trackingNumber # Absent /\ trackingNumber # ""
  /\ trackingNumber # previousTrackingNumber
  /\ order.orderType = "patches"

(* the admin / assigned-employee branch of the handler *)
StaffUpdate(actor, id, body, mail) ==
  LET order == orders[id]
      previousStatus == order.status
      previousTrackingNumber == order.trackingNumber
      saved == ApplyUpdate(order, body)
      statusNotifs ==
        IF StatusChanged(body.status, previousStatus)
        THEN <<Notif(order.customerId, id, "order_status_changed", <<"status", saved.status>>)>>
        ELSE <<>>
      trackingNotifs ==
        IF /\ TrackingChanged(body.trackingNumber, previousTrackingNumber, order)
           /\ users[order.customerId].exists
        THEN <<Notif(order.customerId, id, "tracking_number_added",
                     <<"tracking", body.trackingNumber>>)>>
        ELSE <<>>
  IN IF ~ValidOrder(saved) THEN Reply("update", actor, id, 500)
     ELSE /\ IF statusNotifs \o trackingNotifs # <<>>
             THEN Mailed("update", actor, id, body, 200, statusNotifs \o trackingNotifs, mail)
             ELSE DoneWith("update", actor, id, body, 200, <<>>)
          /\ orders' = [orders EXCEPT ![id] = saved]
          /\ notifications' = notifications \o statusNotifs \o trackingNotifs
          /\ UNCHANGED <<users, nextOrderId, invoices, nextInvoiceId, paypal>>

(* an owner's update that takes the status of the body as well *)
NotesAndStatus(order, body) ==
  [order EXCEPT !.notes = IF body.notes # Absent THEN <<body.notes>> ELSE @,
                !.status = IF body.status # Absent THEN body.status ELSE @]

(* the owner's branch: if (req.body.notes) order.notes = req.body.notes *)
OwnerUpdate(order, body) ==
  [order EXCEPT !.notes = IF body.notes # Absent THEN <<body.notes>> ELSE @]

(* a branch open to every admin and every employee *)
AnyStaff(actor, order) == users[actor].role \in {"admin", "employee"}

(* req.user.role === 'admin' || (req.user.role === 'employee' && order.assignedTo == req.user._id) *)
MayUpdate(actor, order) ==
  \/ users[actor].role = "admin"
  \/ (users[actor].role = "employee" /\ order.assignedTo = actor)

UpdateOrder(actor, id, body, mail) ==
  /\ Serving
  /\ IF ~ExistingOrder(id) THEN Reply("update", actor, id, 404)
        ELSE IF MayUpdate(actor, orders[id]) THEN StaffUpdate(actor, id, body, mail)
        ELSE IF orders[id].customerId = actor
             THEN /\ DoneWith("update-notes", actor, id, body, 200, <<>>)
                  /\ orders' = [orders EXCEPT ![id] = OwnerUpdate(@, body)]
                  /\ UNCHANGED <<users, nextOrderId, invoices, nextInvoiceId, notifications, paypal>>
        ELSE Denied("update", actor, id, 403)

(* ---------------- DELETE /api/orders/:id ---------------- *)
DeleteOrder(actor, id) ==
  /\ Serving
  /\ IF ~ExistingOrder(id) THEN Reply("delete", actor, id, 404)
        ELSE IF users[actor].role # "admin" /\ orders[id].customerId # actor
             THEN Reply("delete", actor, id, 403)
        ELSE /\ Done("delete", actor, id, 200, <<>>)
             /\ users' = IF orders[id].assignedTo # None
                         THEN PullOrder(users, orders[id].assignedTo, id) ELSE users
             /\ orders' = [x \in OrderIds \ {id} |-> orders[x]]
             /\ UNCHANGED <<nextOrderId, invoices, nextInvoiceId, notifications, paypal>>

(* ---------------- POST /:id/sample and POST /:id/revision ---------------- *)
UploadForm(kind, urls) == [kind |-> kind, urls |-> urls]

UploadForms ==
  { UploadForm("files", <<"s1", "s2">>), UploadForm("files", <<>>),
    UploadForm("cloudinaryUrl", <<"s1">>), UploadForm("file", <<"s3">>),
    UploadForm("none", <<>>) }

SampleImage(url, type, comments) == [url |-> url, type |-> type, comments |-> comments]

(* an upload that replaces what was stored *)
ReplaceImages(images, pushed) == pushed

(* order.sampleImages.push({ ... }) for every image of the request *)
PushImages(images, pushed) == images \o pushed

(* op = "sample": type initial, status Waiting for Approval;
   op = "revision": type revision, status Revision Ready *)
UploadSample(op, actor, id, form) ==
  /\ Serving
  /\ LET type == IF op = "sample" THEN "initial" ELSE "revision"
         status == IF op = "sample" THEN "Waiting for Approval" ELSE "Revision Ready"
         ntype == IF op = "sample" THEN "sample_uploaded" ELSE "revision_uploaded"
     IN /\ op \in {"sample", "revision"}
        /\ IF users[actor].role # "admin" THEN Reply(op, actor, NoOrder, 403)
           ELSE IF ~ExistingOrder(id) THEN Reply(op, actor, id, 404)
           ELSE IF form.kind = "none" THEN Reply(op, actor, id, 400)
           ELSE LET pushed == [i \in 1..Len(form.urls) |-> SampleImage(form.urls[i], type, "")]
                    created == <<Notif(orders[id].customerId, id, ntype, NoText)>>
                IN /\ DoneWith(op, actor, id, form, 200, created)
                   /\ orders' = [orders EXCEPT ![id].sampleImages = PushImages(@, pushed),
                                               ![id].status = status]
                   /\ notifications' = notifications \o created
                   /\ UNCHANGED <<users, nextOrderId, invoices, nextInvoiceId, paypal>>

(* ---------------- POST /:id/create-revision ---------------- *)
(* Order.find({ parentOrderId: parent }) *)
ExistingRevisions(parent) == {x \in OrderIds : orders[x].parentOrderId = parent}

(* existingRevisions.length + 1, without the increment *)
RevisionCount(parent) == Cardinality(ExistingRevisions(parent))

(* existingRevisions.length + 1 *)
NextRevisionNumber(parent) == Cardinality(ExistingRevisions(parent)) + 1

CreateRevision(actor, id, comments) ==
  /\ Serving
  /\ IF ~ExistingOrder(id) THEN Reply("create-revision", actor, id, 404)
     ELSE IF ~users[orders[id].customerId].exists THEN Reply("create-revision", actor, id, 500)
     ELSE IF orders[id].customerId # actor THEN Reply("create-revision", actor, id, 403)
     ELSE LET parentOrder == orders[id]
              nextRevisionNumber == NextRevisionNumber(id)
              revisionOrder ==
                [NewOrder(parentOrder.customerId, parentOrder.orderType, parentOrder.fields)
                   EXCEPT !.parentOrderId = id, !.isRevision = TRUE,
                          !.revisionNumber = nextRevisionNumber,
                          !.revisionReason = IF comments # Absent THEN comments
                                             ELSE "Customer requested revision",
                          !.notes = <<<<"Revision", nextRevisionNumber, id,
                                        IF comments # Absent THEN comments ELSE "Not specified">>>>]
              rid == nextOrderId
              created == IF AdminUsers = {} THEN <<>>
                         ELSE <<Notif(SeqOfSet(AdminUsers)[1], rid, "revision_requested", NoText)>>
          IN IF ~ValidOrder(revisionOrder) THEN Reply("create-revision", actor, id, 500)
             ELSE /\ DoneWith("create-revision", actor, rid, id,
                              IF AdminUsers = {} THEN 500 ELSE 201, created)
                  /\ nextOrderId <= MaxOrders
                  /\ orders' = [x \in OrderIds \cup {rid} |->
                                  IF x = rid THEN revisionOrder
                                  ELSE IF x = id THEN [orders[x] EXCEPT !.status = "Superseded"]
                                  ELSE orders[x]]
                  /\ nextOrderId' = nextOrderId + 1
                  /\ notifications' = notifications \o created
                  /\ UNCHANGED <<users, invoices, nextInvoiceId, paypal>>

(* ---------------- POST /:id/employee-submit ---------------- *)
SubmitBody(pendingStatus, pendingFiles, pendingReport) ==
  [pendingStatus |-> pendingStatus, pendingFiles |-> pendingFiles, pendingReport |-> pendingReport]

PendingFile(url) == [url |-> url, comments |-> ""]

SubmitBodies ==
  { SubmitBody(Absent, <<PendingFile("w1")>>, "stitched"),
    SubmitBody("Completed", <<>>, Absent),
    SubmitBody("Done", <<PendingFile("w1")>>, Absent) }

(* a submission that also publishes the proposed status *)
SubmittedAndPublished(order, work) ==
  [order EXCEPT !.employeePendingWork = work, !.status = work.pendingStatus]

(* order.employeePendingWork = { ... }: the one path the handler assigns *)
Submitted(order, work) == [order EXCEPT !.employeePendingWork = work]

EmployeeSubmit(actor, id, body) ==
  /\ Serving
  /\ IF users[actor].role # "employee" THEN Reply("employee-submit", actor, NoOrder, 403)
     ELSE IF ~ExistingOrder(id) THEN Reply("employee-submit", actor, id, 404)
     ELSE IF orders[id].assignedTo # actor THEN Reply("employee-submit", actor, id, 403)
     ELSE LET work == [hasPendingWork |-> TRUE,
                       pendingStatus |-> IF body.pendingStatus # Absent THEN body.pendingStatus
                                         ELSE "Waiting for Approval",
                       pendingFiles |-> body.pendingFiles,
                       pendingReport |-> IF body.pendingReport # Absent THEN body.pendingReport ELSE "",
                       submittedBy |-> actor, rejectionReason |-> "", wasRejected |-> FALSE]
              admins == SeqOfSet(AdminUsers)
              created == [i \in 1..Len(admins) |-> Notif(admins[i], id, "employee_work_pending", NoText)]
          IN /\ Done("employee-submit", actor, id, 200, created)
             /\ orders' = [orders EXCEPT ![id] = Submitted(@, work)]
             /\ notifications' = notifications \o created
             /\ UNCHANGED <<users, nextOrderId, invoices, nextInvoiceId, paypal>>

(* ---------------- POST /:id/admin-approve-work ---------------- *)
(* order.employeePendingWork is a nested path of the schema: the object the
   accessor returns reads every field from the document when the field is read *)
PendingOf(order) == order.employeePendingWork

(* a guard that lets every order through *)
AnyOrder(order) == TRUE

(* order.employeePendingWork?.hasPendingWork *)
HasPendingWork(order) == order.employeePendingWork.hasPendingWork

(* pending.pendingFiles.forEach(file => order.sampleImages.push({ ... })) *)
Published(pending) ==
  [i \in 1..Len(pending.pendingFiles) |->
     SampleImage(pending.pendingFiles[i].url, "initial",
                 IF pending.pendingFiles[i].comments # "" THEN pending.pendingFiles[i].comments
                 ELSE pending.pendingReport)]

AdminApproveWork(actor, id) ==
  /\ Serving
  /\ IF users[actor].role # "admin" THEN Reply("admin-approve-work", actor, NoOrder, 403)
     ELSE IF ~ExistingOrder(id) THEN Reply("admin-approve-work", actor, id, 404)
     ELSE IF ~HasPendingWork(orders[id]) THEN Reply("admin-approve-work", actor, id, 400)
     ELSE LET order == orders[id]
              pending == PendingOf(order)
              pushed == Published(pending)
              saved == [order EXCEPT
                          !.sampleImages = @ \o pushed,
                          !.status = IF pending.pendingStatus # "" THEN pending.pendingStatus ELSE @,
                          !.report = IF pending.pendingReport # "" THEN pending.pendingReport ELSE @,
                          !.employeePendingWork = EmptyPendingWork]
              (* pending.submittedBy is read after the struct was cleared *)
              submittedBy == PendingOf(saved).submittedBy
              created == <<Notif(order.customerId, id, "sample_uploaded", NoText)>> \o
                         (IF submittedBy # None
                          THEN <<Notif(submittedBy, id, "work_approved", NoText)>> ELSE <<>>)
          IN IF ~ValidOrder(saved) THEN Reply("admin-approve-work", actor, id, 500)
             ELSE /\ Done("admin-approve-work", actor, id, 200, created)
                  /\ orders' = [orders EXCEPT ![id] = saved]
                  /\ notifications' = notifications \o created
                  /\ UNCHANGED <<users, nextOrderId, invoices, nextInvoiceId, paypal>>

(* ---------------- POST /:id/admin-reject-work ---------------- *)
(* a rejection that drops the submitted files *)
RejectedWorkCleared(pending, submittedBy, reason) ==
  [hasPendingWork |-> FALSE, pendingStatus |-> pending.pendingStatus,
   pendingFiles |-> <<>>, pendingReport |-> pending.pendingReport,
   submittedBy |-> submittedBy, rejectionReason |-> reason, wasRejected |-> TRUE]

(* the struct the handler writes: the submission kept, marked as rejected *)
RejectedWork(pending, submittedBy, reason) ==
  [hasPendingWork |-> FALSE, pendingStatus |-> pending.pendingStatus,
   pendingFiles |-> pending.pendingFiles, pendingReport |-> pending.pendingReport,
   submittedBy |-> submittedBy, rejectionReason |-> reason, wasRejected |-> TRUE]

(* a rejection that tells the customer as well *)
RejectionNotifsToAll(order, id, submittedBy, reason) ==
  <<Notif(submittedBy, id, "work_rejected", <<"rejected", reason>>),
    Notif(order.customerId, id, "work_rejected", <<"rejected", reason>>)>>

(* if (submittedBy) Notification.create({ userId: submittedBy, type: 'work_rejected', ... }) *)
RejectionNotifs(order, id, submittedBy, reason) ==
  IF submittedBy # None
  THEN <<Notif(submittedBy, id, "work_rejected", <<"rejected", reason>>)>> ELSE <<>>

AdminRejectWork(actor, id, rejectionReason) ==
  /\ Serving
  /\ IF users[actor].role # "admin" THEN Reply("admin-reject-work", actor, NoOrder, 403)
     ELSE IF ~ExistingOrder(id) THEN Reply("admin-reject-work", actor, id, 404)
     ELSE IF ~HasPendingWork(orders[id]) THEN Reply("admin-reject-work", actor, id, 400)
     ELSE LET submittedBy == orders[id].employeePendingWork.submittedBy
              reason == IF rejectionReason # Absent THEN rejectionReason ELSE "Work needs revision"
              created == RejectionNotifs(orders[id], id, submittedBy, reason)
          IN /\ DoneWith("admin-reject-work", actor, id, rejectionReason, 200, created)
             /\ orders' = [orders EXCEPT ![id].employeePendingWork =
                              RejectedWork(@, submittedBy, reason)]
             /\ notifications' = notifications \o created
             /\ UNCHANGED <<users, nextOrderId, invoices, nextInvoiceId, paypal>>

(* ---------------- DELETE /api/employees/:id ---------------- *)
DeleteEmployee(actor, e) ==
  /\ Serving
  /\ IF users[actor].role # "admin" THEN Reply("delete-employee", actor, NoOrder, 403)
     ELSE IF ~IsEmployee(e) THEN Reply("delete-employee", actor, NoOrder, 404)
     ELSE /\ Done("delete-employee", actor, NoOrder, 200, <<>>)
          /\ orders' = [x \in OrderIds |->
                          IF orders[x].assignedTo = e THEN [orders[x] EXCEPT !.assignedTo = None]
                          ELSE orders[x]]
          /\ users' = [users EXCEPT ![e] = [role |-> "employee", exists |-> FALSE,
                                            assignedOrders |-> {}]]
          /\ UNCHANGED <<nextOrderId, invoices, nextInvoiceId, notifications, paypal>>

(* ---------------- PUT /api/notifications/:id/read and /read-all ---------------- *)
(* a Notification is named by its position in the collection *)
NotificationIds == DOMAIN notifications
MissingNotification == 99

(* a request names the oldest notification, the latest, or one that does not exist *)
NotificationRefs == ({1, Len(notifications)} \cap NotificationIds) \cup {MissingNotification}

(* a check that lets every sender through *)
AnyRecipient(actor, notification) == TRUE

(* notification.userId.toString() === req.user._id.toString() *)
IsRecipient(actor, notification) == notification.userId = actor

MarkRead(actor, n) ==
  /\ Serving
  /\ IF n \notin NotificationIds THEN Denied("mark-read", actor, n, 404)
     ELSE IF ~IsRecipient(actor, notifications[n]) THEN Denied("mark-read", actor, n, 403)
     ELSE /\ Done("mark-read", actor, n, 200, <<>>)
          /\ notifications' = [notifications EXCEPT ![n].isRead = TRUE]
          /\ UNCHANGED <<users, orders, nextOrderId, invoices, nextInvoiceId, paypal>>

(* Notification.updateMany({ userId: req.user._id, isRead: false }, { isRead: true }) *)
MarkAllRead(actor) ==
  /\ Serving
  /\ Done("mark-all-read", actor, NoOrder, 200, <<>>)
  /\ notifications' = [i \in NotificationIds |->
                         IF notifications[i].userId = actor /\ ~notifications[i].isRead
                         THEN [notifications[i] EXCEPT !.isRead = TRUE] ELSE notifications[i]]
  /\ UNCHANGED <<users, orders, nextOrderId, invoices, nextInvoiceId, paypal>>

(* ---------------- the Invoice collection ---------------- *)
InvoiceIds == DOMAIN invoices
MissingInvoice == 99
InvoiceRefs == InvoiceIds \cup {MissingInvoice}

(* an order that is given the invoice's id and nothing else *)
InvoicedById(order, iid) == [order EXCEPT !.invoiceId = iid]

(* order.invoiceId = invoice._id; order.hasInvoice = true; order.invoiceStatus = 'pending' *)
Invoiced(order, iid) ==
  [order EXCEPT !.invoiceId = iid, !.hasInvoice = TRUE, !.invoiceStatus = "pending"]

(* ---------------- POST /api/invoices/create ---------------- *)
CreateInvoice(actor, orderId, mail) ==
  /\ Serving
  /\ IF users[actor].role # "admin" THEN Reply("invoice-create", actor, NoOrder, 403)
     ELSE IF ~ExistingOrder(orderId) THEN Reply("invoice-create", actor, orderId, 404)
     ELSE IF ~users[orders[orderId].customerId].exists THEN Reply("invoice-create", actor, orderId, 404)
     ELSE LET iid == nextInvoiceId
              invoice == [customerId |-> orders[orderId].customerId, orderId |-> orderId,
                          orders |-> {},
                          paymentStatus |-> "unpaid", paymentDetails |-> NoPaymentDetails]
          IN /\ Mailed("invoice-create", actor, orderId, None, 201, <<>>, mail)
             /\ invoices' = [x \in InvoiceIds \cup {iid} |-> IF x = iid THEN invoice ELSE invoices[x]]
             /\ nextInvoiceId' = nextInvoiceId + 1
             /\ orders' = [orders EXCEPT ![orderId] = Invoiced(@, iid)]
             /\ UNCHANGED <<users, nextOrderId, notifications, paypal>>

(* ---------------- POST /api/invoices/create, the consolidated variant ---------------- *)
(* the orderIds arrays of the requests *)
InvoiceSelections == {{}, {1}, {1, 2}, {2, 3}, {2, MissingOrder}}

(* a check that lets orders of several customers through *)
AnyCustomers(ids) == TRUE

(* orders.every(o => o.customerId.toString() === firstCustomerId) *)
AllSameCustomer(ids) == \A x, y \in ids : orders[x].customerId = orders[y].customerId

CreateConsolidatedInvoice(actor, orderIds, mail) ==
  /\ Serving
  /\ IF users[actor].role # "admin" THEN Refuse("invoice-consolidate", NoInvoice, orderIds, 403)
     ELSE IF orderIds = {} THEN Refuse("invoice-consolidate", NoInvoice, orderIds, 400)
     ELSE IF ~(orderIds \subseteq OrderIds) THEN Refuse("invoice-consolidate", NoInvoice, orderIds, 404)
     ELSE IF ~AllSameCustomer(orderIds) THEN Refuse("invoice-consolidate", NoInvoice, orderIds, 400)
     ELSE LET firstCustomerId == orders[CHOOSE x \in orderIds : TRUE].customerId
              iid == nextInvoiceId
              invoice == [customerId |-> firstCustomerId, orderId |-> NoOrder, orders |-> orderIds,
                          paymentStatus |-> "unpaid", paymentDetails |-> NoPaymentDetails]
          IN IF ~users[firstCustomerId].exists
             THEN Refuse("invoice-consolidate", NoInvoice, orderIds, 404)
             ELSE /\ Mailed("invoice-consolidate", actor, iid, orderIds, 201, <<>>, mail)
                  /\ invoices' = [x \in InvoiceIds \cup {iid} |->
                                    IF x = iid THEN invoice ELSE invoices[x]]
                  /\ nextInvoiceId' = nextInvoiceId + 1
                  /\ orders' = [x \in OrderIds |->
                                  IF x \in orderIds THEN Invoiced(orders[x], iid) ELSE orders[x]]
                  /\ UNCHANGED <<users, nextOrderId, notifications, paypal>>

(* the orders an invoice is linked to: its orderId, or the ids of its orders array *)
LinkedOrders(invoice) == ({invoice.orderId} \cup invoice.orders) \cap OrderIds

(* the invoice and its linked orders once the payment is recorded *)
MarkPaid(invoiceId, details) ==
  /\ invoices' = [invoices EXCEPT ![invoiceId].paymentStatus = "paid",
                                  ![invoiceId].paymentDetails = details]
  /\ orders' = [x \in OrderIds |->
                  IF x \in LinkedOrders(invoices[invoiceId])
                  THEN [orders[x] EXCEPT !.invoiceStatus = "paid"] ELSE orders[x]]

(* ---------------- POST /api/invoices/pay/:invoiceId and /public/pay/:invoiceId ---------------- *)
(* the handler after authorization: the provider is asked for the transaction *)
VerifiedPay(op, actor, invoiceId, transactionId) ==
  IF invoiceId \notin InvoiceIds THEN Reply(op, actor, NoOrder, 404)
  ELSE IF transactionId \notin TxIds
       THEN /\ last' = [Respond(op, None, invoiceId, 500, <<>>)
                          EXCEPT !.tx = transactionId, !.queried = TRUE]
            /\ UNCHANGED <<users, orders, nextOrderId, invoices, nextInvoiceId, notifications,
                           paypal, steps, inflight>>
  ELSE IF paypal[transactionId] # "COMPLETED"
       THEN /\ last' = [Respond(op, None, invoiceId, 400, <<>>)
                          EXCEPT !.tx = transactionId, !.queried = TRUE]
            /\ UNCHANGED <<users, orders, nextOrderId, invoices, nextInvoiceId, notifications,
                           paypal, steps, inflight>>
  ELSE /\ Write
       /\ MarkPaid(invoiceId, [transactionId |-> transactionId,
                               payerId |-> PayerOf(transactionId).payerId,
                               payerEmail |-> PayerOf(transactionId).payerEmail])
       /\ last' = [Respond(op, actor, invoiceId, 200, <<>>)
                     EXCEPT !.tx = transactionId, !.queried = TRUE]
       /\ UNCHANGED <<users, nextOrderId, nextInvoiceId, notifications, paypal>>

PayInvoice(actor, invoiceId, transactionId) ==
  /\ Serving
  /\ IF users[actor].role # "customer" THEN Reply("pay", actor, NoOrder, 403)
     ELSE VerifiedPay("pay", actor, invoiceId, transactionId)

PublicPayInvoice(invoiceId, transactionId) ==
  /\ Serving
  /\ VerifiedPay("public-pay", None, invoiceId, transactionId)

(* ---------------- POST /pay/:invoiceId, the earlier variant of the invoice routes ---------------- *)
PayInvoiceEarlier(actor, invoiceId, transactionId, payer) ==
  /\ Serving
  /\ IF users[actor].role # "customer" THEN Reply("pay-earlier", actor, NoOrder, 403)
     ELSE IF invoiceId \notin InvoiceIds THEN Reply("pay-earlier", actor, NoOrder, 404)
     ELSE /\ Write
          /\ MarkPaid(invoiceId, [transactionId |-> transactionId, payerId |-> payer.payerId,
                                  payerEmail |-> payer.payerEmail])
          /\ last' = [Respond("pay-earlier", actor, invoiceId, 200, <<>>) EXCEPT !.tx = transactionId]
          /\ UNCHANGED <<users, nextOrderId, nextInvoiceId, notifications, paypal>>

(* ---------------- POST /api/payments/capture-order ---------------- *)
CaptureOrder(actor, invoiceId, paypalOrderId) ==
  /\ Serving
  /\ IF users[actor].role # "customer" THEN Reply("capture-order", actor, NoOrder, 403)
     ELSE IF invoiceId = NoInvoice \/ paypalOrderId = Absent
          THEN Reply("capture-order", actor, NoOrder, 400)
     ELSE IF invoiceId \notin InvoiceIds THEN Reply("capture-order", actor, NoOrder, 404)
     ELSE IF invoices[invoiceId].customerId # actor THEN Reply("capture-order", actor, invoiceId, 403)
     ELSE IF paypalOrderId \notin TxIds \/ paypal[paypalOrderId] # "APPROVED"
          THEN Reply("capture-order", actor, invoiceId, 500)
     ELSE /\ Write
          /\ paypal' = [paypal EXCEPT ![paypalOrderId] = "COMPLETED"]
          /\ MarkPaid(invoiceId, [transactionId |-> CaptureIdOf(paypalOrderId),
                                  payerId |-> PayerOf(paypalOrderId).payerId,
                                  payerEmail |-> PayerOf(paypalOrderId).payerEmail])
          /\ last' = [Respond("capture-order", actor, invoiceId, 200, <<>>)
                        EXCEPT !.tx = paypalOrderId, !.queried = TRUE]
          /\ UNCHANGED <<users, nextOrderId, nextInvoiceId, notifications>>

(* ---------------- the requests ---------------- *)
Staff == {"a1", "e1", "e2"}
Assignees == Employees \cup {None, "c1"}
ClientPayers == {[payerId |-> "payerX", payerEmail |-> "x@client"]}

(* A handler behind the admin check answers 403 before it reads the request:
   a sender who is no admin sends one request, an admin every request. *)
AdminInputs(actor, S) == IF RoleOf(actor) = "admin" THEN S ELSE {CHOOSE x \in S : TRUE}

(* likewise for the handlers behind the customer check *)
CustomerInputs(actor, S) == IF RoleOf(actor) = "customer" THEN S ELSE {CHOOSE x \in S : TRUE}

(* likewise for an input a handler reads only once the request got that far *)
ReadIf(reached, S) == IF reached THEN S ELSE {CHOOSE x \in S : TRUE}

(* the senders of the next request: none once a request was rejected *)
Senders(S) == IF Serving THEN S ELSE {}

(* the sender is the customer of an order that exists *)
Owns(actor, id) == id \in OrderIds /\ orders[id].customerId = actor

(* the sender passes the check of PUT /:id on an order that exists *)
Updates(actor, id) == id \in OrderIds /\ MayUpdate(actor, orders[id])

Next ==
  \/ \E actor \in Senders({"a1", "e1", "c1"}) : ListOrders(actor)
  \/ \E actor \in Senders(Customers), body \in CreateBodies :
        \E mail \in ReadIf(body.orderType \in OrderTypes /\ body.hasFiles, MailOutcomes) :
           CreateOrder(actor, body, mail)
  \/ \E actor \in Senders({"a1", "e1"}) :
        \E id \in AdminInputs(actor, OrderRefs), e \in AdminInputs(actor, Assignees) :
           \E mail \in ReadIf(id \in OrderIds, AdminInputs(actor, MailOutcomes)) :
              Assign(actor, id, e, mail)
  \/ \E actor \in Senders({"a1", "e1"}) :
        \E ids \in AdminInputs(actor, BulkSelections) :
           \E e \in ReadIf(ids # {}, AdminInputs(actor, Assignees)) :
              \E failing \in ReadIf(ids \cap OrderIds # {} /\ e \in Employees,
                                    AdminInputs(actor, SaveFailures)) :
                 BulkAssign(actor, ids, e, failing)
  \/ \E actor \in Senders(Customers), id \in OrderRefs,
        op \in {"approve", "revision-request", "revision-approve"} :
        \E comments \in IF op = "revision-request" THEN ReadIf(Owns(actor, id), {Absent, "darker"})
                        ELSE {Absent} :
           CustomerFeedback(op, actor, id, comments)
  \/ \E actor \in Senders({"a1", "e1", "c1"}), id \in OrderRefs :
        \E body \in ReadIf(Updates(actor, id) \/ Owns(actor, id), UpdateBodies) :
           \E mail \in ReadIf(Updates(actor, id), MailOutcomes) :
              UpdateOrder(actor, id, body, mail)
  \/ \E actor \in Senders({"a1", "e1", "c1"}), id \in OrderRefs : DeleteOrder(actor, id)
  \/ \E actor \in Senders({"a1", "e1"}), op \in {"sample", "revision"} :
        \E id \in AdminInputs(actor, OrderRefs) :
           \E form \in ReadIf(id \in OrderIds, AdminInputs(actor, UploadForms)) :
              UploadSample(op, actor, id, form)
  \/ \E actor \in Senders(Customers), id \in OrderRefs :
        \E comments \in ReadIf(Owns(actor, id), {Absent, "darker"}) :
           CreateRevision(actor, id, comments)
  \/ \E actor \in Senders(Staff) :
        \E id \in ReadIf(RoleOf(actor) = "employee", OrderRefs) :
           \E body \in ReadIf(id \in OrderIds /\ orders[id].assignedTo = actor, SubmitBodies) :
              EmployeeSubmit(actor, id, body)
  \/ \E actor \in Senders({"a1", "e1"}) : \E id \in AdminInputs(actor, OrderRefs) : AdminApproveWork(actor, id)
  \/ \E actor \in Senders({"a1", "e1"}) :
        \E id \in AdminInputs(actor, OrderRefs) :
           \E reason \in ReadIf(id \in OrderIds, AdminInputs(actor, {Absent, "blurry image"})) :
              AdminRejectWork(actor, id, reason)
  \/ \E actor \in Senders({"a1", "e1"}) : \E e \in AdminInputs(actor, Employees \cup {"c1"}) :
        DeleteEmployee(actor, e)
  \/ \E actor \in Senders({"a1", "e1"}) :
        \E id \in AdminInputs(actor, OrderRefs) :
           \E mail \in ReadIf(id \in OrderIds, AdminInputs(actor, MailOutcomes)) :
              CreateInvoice(actor, id, mail)
  \/ \E actor \in Senders({"a1", "e1"}) :
        \E ids \in AdminInputs(actor, InvoiceSelections) :
           \E mail \in ReadIf(ids # {} /\ ids \subseteq OrderIds, AdminInputs(actor, MailOutcomes)) :
              CreateConsolidatedInvoice(actor, ids, mail)
  \/ \E actor \in Senders({"c1", "a1"}) :
        \E i \in CustomerInputs(actor, InvoiceRefs) :
           \E tx \in ReadIf(i \in InvoiceIds, CustomerInputs(actor, TxIds \cup {UnknownTx})) :
              PayInvoice(actor, i, tx)
  \/ \E i \in Senders(InvoiceRefs) :
        \E tx \in ReadIf(i \in InvoiceIds, TxIds \cup {UnknownTx}) : PublicPayInvoice(i, tx)
  \/ \E actor \in Senders({"c1", "a1"}) :
        \E i \in CustomerInputs(actor, InvoiceRefs) :
           \E tx \in ReadIf(i \in InvoiceIds, CustomerInputs(actor, TxIds \cup {UnknownTx})),
              payer \in ClientPayers : PayInvoiceEarlier(actor, i, tx, payer)
  \/ \E actor \in Senders({"c1", "c2", "a1"}) :
        \E i \in CustomerInputs(actor, InvoiceRefs \cup {NoInvoice}),
           tx \in CustomerInputs(actor, TxIds \cup {UnknownTx, Absent}) :
           CaptureOrder(actor, i, tx)

  \/ \E actor \in Senders({"a1", "c1"}), n \in NotificationRefs : MarkRead(actor, n)
  \/ \E actor \in Senders({"a1", "c1"}) : MarkAllRead(actor)

Spec == Init /\ [][Next]_vars

(* ---------------- the requests served on the later database ---------------- *)
LaterInit ==
  /\ users = LaterDb.users
  /\ orders = LaterDb.orders
  /\ nextOrderId = LaterDb.nextOrderId
  /\ notifications = LaterDb.notifications
  /\ invoices = LaterDb.invoices
  /\ nextInvoiceId = LaterDb.nextInvoiceId
  /\ paypal = [t \in TxIds |-> IF t = "t_done" THEN "COMPLETED" ELSE "APPROVED"]
  /\ last = Respond("init", None, NoOrder, 0, <<>>)
  /\ steps = 0
  /\ inflight = <<>>

LaterSpec == LaterInit /\ [][Next]_vars

(* ---------------- PATCH /api/orders/assign/:id, await by await ---------------- *)
(* Requests of an admin for one order are served concurrently: each await of the
   handler is a step of its own, and the steps of the requests interleave. *)
Requests == 1..MaxRequests

(* the order the requests name *)
AssignedOrder == 1

(* a request not yet received *)
Idle == [pc |-> "start", employeeId |-> None, previousAssigned |-> None, alone |-> FALSE]

AssignInit ==
  /\ \E db \in {SeededDb @@ NoInvoices, WorkDb} :
       /\ users = db.users
       /\ orders = db.orders
       /\ nextOrderId = db.nextOrderId
       /\ notifications = db.notifications
       /\ invoices = db.invoices
       /\ nextInvoiceId = db.nextInvoiceId
  /\ paypal = [t \in TxIds |-> IF t = "t_done" THEN "COMPLETED" ELSE "APPROVED"]
  /\ last = Respond("init", None, NoOrder, 0, <<>>)
  /\ steps = 0
  /\ inflight = [r \in Requests |-> Idle]

(* no other request is between its first and its last step *)
Quiet(r) == \A q \in Requests \ {r} : inflight[q].pc \in {"start", "done"}

(* Order.findById(req.params.id); previousAssigned = order.assignedTo; order.assignedTo = employeeId *)
AssignFind(r, employeeId) ==
  /\ inflight[r].pc = "start"
  /\ IsEmployee(employeeId)
  /\ ExistingOrder(AssignedOrder)
  /\ inflight' = [q \in Requests |->
                    IF q = r
                    THEN [pc |-> "found", employeeId |-> employeeId,
                          previousAssigned |-> orders[AssignedOrder].assignedTo,
                          alone |-> Quiet(r)]
                    ELSE [inflight[q] EXCEPT !.alone = @ /\ inflight[q].pc \in {"start", "done"}]]
  /\ UNCHANGED <<users, orders, nextOrderId, invoices, nextInvoiceId, notifications, paypal,
                 last, steps>>

(* await order.save() *)
AssignSave(r) ==
  /\ inflight[r].pc = "found"
  /\ orders' = [orders EXCEPT ![AssignedOrder].assignedTo = inflight[r].employeeId]
  /\ inflight' = [inflight EXCEPT ![r].pc = "saved"]
  /\ UNCHANGED <<users, nextOrderId, invoices, nextInvoiceId, notifications, paypal, last, steps>>

(* if (previousAssigned && previousAssigned !== employeeId) await User.findByIdAndUpdate(... $pull ...) *)
AssignPull(r) ==
  /\ inflight[r].pc = "saved"
  /\ LET prev == inflight[r].previousAssigned IN
     users' = IF prev # None /\ prev # inflight[r].employeeId
              THEN PullOrder(users, prev, AssignedOrder) ELSE users
  /\ inflight' = [inflight EXCEPT ![r].pc = "pulled"]
  /\ UNCHANGED <<orders, nextOrderId, invoices, nextInvoiceId, notifications, paypal, last, steps>>

(* await User.findByIdAndUpdate(employeeId, { $addToSet: { assignedOrders: order._id } }) *)
AssignAdd(r) ==
  /\ inflight[r].pc = "pulled"
  /\ users' = AddOrder(users, inflight[r].employeeId, AssignedOrder)
  /\ inflight' = [inflight EXCEPT ![r].pc = "added"]
  /\ UNCHANGED <<orders, nextOrderId, invoices, nextInvoiceId, notifications, paypal, last, steps>>

(* await Notification.create({ ... }); res.json({ success: true, ... }) *)
AssignNotify(r) ==
  /\ inflight[r].pc = "added"
  /\ LET created == <<Notif(inflight[r].employeeId, AssignedOrder, "order_assigned", NoText)>>
     IN /\ notifications' = notifications \o created
        /\ last' = [Respond("assign", "a1", AssignedOrder, 200, created)
                      EXCEPT !.arg = inflight[r].employeeId]
  /\ inflight' = [inflight EXCEPT ![r].pc = "done"]
  /\ UNCHANGED <<users, orders, nextOrderId, invoices, nextInvoiceId, paypal, steps>>

(* the request ends between the order save and the User updates: the process
   dies, or a User update throws and the catch block answers 500 *)
AssignAbort(r) ==
  /\ inflight[r].pc \in {"saved", "pulled"}
  /\ inflight' = [inflight EXCEPT ![r].pc = "failed"]
  /\ last' = [Respond("assign", "a1", AssignedOrder, 500, <<>>)
                EXCEPT !.arg = inflight[r].employeeId]
  /\ UNCHANGED <<users, orders, nextOrderId, invoices, nextInvoiceId, notifications, paypal, steps>>

AssignNext ==
  \/ \E r \in Requests, e \in Employees : AssignFind(r, e)
  \/ \E r \in Requests : AssignSave(r)
  \/ \E r \in Requests : AssignPull(r)
  \/ \E r \in Requests : AssignAdd(r)
  \/ \E r \in Requests : AssignNotify(r)
  \/ \E r \in Requests : AssignAbort(r)

AssignSpec == AssignInit /\ [][AssignNext]_vars

(* ---------------- properties ---------------- *)
Answered(op, code) == last.op = op /\ last.code = code

(* the indices of the notifications of a type among those a handler created *)
OfType(created, type) == {i \in DOMAIN created : created[i].type = type}

(* C1: after a completed Assign of order O to employee E by an admin, O.assignedTo
   is E, E.assignedOrders contains O, and no other user's assignedOrders contains
   O; reassigning O from A to B removes O from A.assignedOrders and adds it to
   B.assignedOrders. *)
C1_AssignBackReference ==
  Answered("assign", 200) =>
    /\ orders[last.id].assignedTo = last.arg
    /\ last.id \in users[last.arg].assignedOrders
    /\ \A u \in UserIds \ {last.arg} : last.id \notin users[u].assignedOrders

(* order 1, assigned to e1 before, is reassigned to e2 *)
C1_Reassigned ==
  /\ Answered("assign", 200) /\ last.id = 1 /\ last.arg = "e2"
  /\ orders[1].assignedTo = "e2"
  /\ 1 \in users["e2"].assignedOrders
  /\ 1 \notin users["e1"].assignedOrders

(* C2: a successful update by an admin or the assigned employee creates one
   order_status_changed notification, addressed to the order's customer, if and
   only if the request carries a status that differs from the order's status
   before the request; with the same status, or with no status, it creates none. *)
C2_StatusNotificationIffChanged ==
  [][ (last'.op = "update" /\ last'.code = 200) =>
        LET id == last'.id
            made == OfType(last'.created, "order_status_changed")
            differs == last'.arg.status # Absent /\ last'.arg.status # orders[id].status
        IN /\ notifications' = notifications \o last'.created
           /\ Cardinality(made) = IF differs THEN 1 ELSE 0
           /\ \A i \in made : /\ last'.created[i].userId = orders[id].customerId
                              /\ last'.created[i].orderId = id ]_vars

(* an update carrying the status the order already has: no notification *)
C2_SameStatusSilent ==
  /\ Answered("update", 200) /\ last.arg.status = "Completed" /\ last.id = 2
  /\ last.created = <<>>
  /\ orders[2].status = "Completed"

(* C3: a submit of pending work by the assigned employee writes only
   employeePendingWork: the order's status and sampleImages are what they were,
   and what was submitted reaches them in no step but an admin-approve-work: a
   step that changes an order's status or sampleImages is an approval of pending
   work or one of the requests that set them from the request itself. *)
C3_SubmitTouchesOnlyPendingWork ==
  [][ /\ (last'.op = "employee-submit" /\ last'.code = 200) =>
           /\ DOMAIN orders' = DOMAIN orders
           /\ \A x \in OrderIds :
                /\ orders'[x].status = orders[x].status
                /\ orders'[x].sampleImages = orders[x].sampleImages
                /\ [orders'[x] EXCEPT !.employeePendingWork = orders[x].employeePendingWork]
                     = orders[x]
      /\ \A x \in OrderIds \cap DOMAIN orders' :
           (orders'[x].sampleImages # orders[x].sampleImages) =>
              last'.op \in {"admin-approve-work", "sample", "revision"}
      /\ \A x \in OrderIds \cap DOMAIN orders' :
           (orders'[x].status # orders[x].status) =>
              last'.op \in {"admin-approve-work", "sample", "revision", "update",
                            "create-revision"} ]_vars

(* e1 proposed Completed with a file for order 1: the order is still In Progress
   and shows no sample *)
C3_SubmittedNotPublished ==
  /\ Answered("employee-submit", 200) /\ last.id = 1
  /\ orders[1].employeePendingWork.hasPendingWork
  /\ orders[1].employeePendingWork.pendingStatus = "Completed"
  /\ orders[1].status = "In Progress"
  /\ orders[1].sampleImages = <<>>

(* C4: an admin's approval of pending work appends every pending file to
   sampleImages, sets status to pendingStatus, resets employeePendingWork to the
   empty struct, and creates one notification for the customer and one
   work_approved notification for the employee recorded in submittedBy. *)
C4_ApproveEffects ==
  [][ (last'.op = "admin-approve-work" /\ last'.code = 200) =>
        LET id == last'.id
            pending == orders[id].employeePendingWork
            created == last'.created
        IN /\ orders'[id].sampleImages = orders[id].sampleImages \o Published(pending)
           /\ orders'[id].status = pending.pendingStatus
           /\ orders'[id].employeePendingWork = EmptyPendingWork
           /\ notifications' = notifications \o created
           /\ Cardinality({i \in DOMAIN created : created[i].userId = orders[id].customerId}) = 1
           /\ Cardinality({i \in DOMAIN created :
                             /\ created[i].type = "work_approved"
                             /\ created[i].userId = pending.submittedBy}) = 1 ]_vars

(* C5: an admin's rejection of pending work sets hasPendingWork to false and
   wasRejected to true, records the rejection reason, and leaves pendingFiles,
   pendingStatus, pendingReport and submittedBy as they were; the order's status
   and sampleImages, and every other field of the order, are unchanged. *)
C5_RejectKeepsSubmission ==
  [][ (last'.op = "admin-reject-work" /\ last'.code = 200) =>
        LET id == last'.id
            before == orders[id].employeePendingWork
            after == orders'[id].employeePendingWork
        IN /\ before.hasPendingWork
           /\ ~after.hasPendingWork
           /\ after.wasRejected
           /\ after.rejectionReason =
                IF last'.arg # Absent THEN last'.arg ELSE "Work needs revision"
           /\ after.pendingFiles = before.pendingFiles
           /\ after.pendingStatus = before.pendingStatus
           /\ after.pendingReport = before.pendingReport
           /\ after.submittedBy = before.submittedBy
           /\ orders'[id].status = orders[id].status
           /\ orders'[id].sampleImages = orders[id].sampleImages
           /\ orders' = [orders EXCEPT ![id].employeePendingWork = after] ]_vars

(* the work e1 submitted for order 1 was rejected as blurry: the file is kept *)
C5_RejectedWithFiles ==
  /\ Answered("admin-reject-work", 200) /\ last.id = 1
  /\ orders[1].employeePendingWork.wasRejected
  /\ ~orders[1].employeePendingWork.hasPendingWork
  /\ orders[1].employeePendingWork.rejectionReason = "blurry image"
  /\ orders[1].employeePendingWork.pendingFiles = <<PendingFile("w1")>>
  /\ orders[1].employeePendingWork.submittedBy = "e1"

(* C6: an admin's approval or rejection of pending work on an order whose
   hasPendingWork is false, also right after an approval or rejection of the
   same submission, is answered 400 and changes no order and creates no
   notification. *)
C6_NoPendingWorkIs400 ==
  [][ /\ ( /\ last'.op \in {"admin-approve-work", "admin-reject-work"}
           /\ last'.code \notin {403, 404}
           /\ ~orders[last'.id].employeePendingWork.hasPendingWork )
         => last'.code = 400
      /\ ( /\ last'.op \in {"admin-approve-work", "admin-reject-work"}
           /\ last'.code = 400 )
         => /\ ~orders[last'.id].employeePendingWork.hasPendingWork
            /\ UNCHANGED <<users, orders, invoices, notifications>> ]_vars

(* the work on order 1 was approved, and the approval sent again is answered 400 *)
C6_SecondApprovalRefused ==
  /\ Answered("admin-approve-work", 400) /\ last.id = 1
  /\ steps = 1
  /\ orders[1].sampleImages # <<>>
  /\ orders[1].employeePendingWork = EmptyPendingWork

(* C7: an admin's rejection of pending work creates exactly one notification: of
   type work_rejected, addressed to the employee who submitted, its message
   holding the reason; none is addressed to the order's customer. *)
C7_RejectNotifiesEmployeeOnly ==
  [][ (last'.op = "admin-reject-work" /\ last'.code = 200) =>
        LET id == last'.id
            created == last'.created
            reason == IF last'.arg # Absent THEN last'.arg ELSE "Work needs revision"
        IN /\ notifications' = notifications \o created
           /\ Len(created) = 1
           /\ created[1].type = "work_rejected"
           /\ created[1].userId = orders[id].employeePendingWork.submittedBy
           /\ created[1].orderId = id
           /\ \E k \in DOMAIN created[1].msg : created[1].msg[k] = reason
           /\ \A i \in DOMAIN created : created[i].userId # orders[id].customerId ]_vars

(* e1 holds the work_rejected notification with the reason given *)
C7_EmployeeToldWhy ==
  /\ Answered("admin-reject-work", 200) /\ last.arg = "blurry image"
  /\ notifications[Len(notifications)] =
       Notif("e1", 1, "work_rejected", <<"rejected", "blurry image">>)

(* C8: after a successful create-revision on parent P, P.status is Superseded and
   the new order R has isRevision true, parentOrderId P, the orderType of P, and
   revisionNumber one more than the number of orders whose parentOrderId was P
   before the request. *)
C8_RevisionOfParent ==
  [][ (last'.op = "create-revision" /\ last'.code = 201) =>
        LET P == last'.arg
            R == last'.id
        IN /\ P \in OrderIds
           /\ R \notin OrderIds
           /\ R \in DOMAIN orders'
           /\ orders'[P].status = "Superseded"
           /\ orders'[R].isRevision
           /\ orders'[R].parentOrderId = P
           /\ orders'[R].orderType = orders[P].orderType
           /\ orders'[R].revisionNumber =
                Cardinality({x \in OrderIds : orders[x].parentOrderId = P}) + 1 ]_vars

(* order 2 already had revision 1: its second revision is numbered 2 *)
C8_SecondRevision ==
  /\ Answered("create-revision", 201) /\ last.arg = 2
  /\ orders[2].status = "Superseded"
  /\ orders[last.id].isRevision
  /\ orders[last.id].parentOrderId = 2
  /\ orders[last.id].orderType = "patches"
  /\ orders[last.id].revisionNumber = 2

(* C9: the orderType of an order is the same in every state after its creation:
   no request changes it, and an update carrying an orderType leaves it as it was. *)
C9_OrderTypeImmutable ==
  [][ \A x \in OrderIds \cap DOMAIN orders' : orders'[x].orderType = orders[x].orderType ]_vars

(* the admin's update of vector order 1 carried orderType patches with the patch
   fields: the rest of the body was applied, the order is a vector order still *)
C9_TypeInBodyIgnored ==
  /\ Answered("update", 200) /\ last.id = 1 /\ last.arg.status = "Rejected"
  /\ orders[1].status = "Rejected"
  /\ orders[1].rejectedReason = "bad file"
  /\ orders[1].orderType = "vector"

(* C10: an invoice becomes paid only in a pay request in which the server asked
   the payment provider about the transaction and the provider reported
   COMPLETED; when the provider reports another status the request is answered
   400 and the invoice and the linked order stay as they were; the payer data
   recorded is the provider's, never the client's. *)
C10_PaidOnlyWhenProviderCompleted ==
  [][ /\ \A i \in InvoiceIds \cap DOMAIN invoices' :
           (invoices'[i].paymentStatus = "paid" /\ invoices[i].paymentStatus # "paid") =>
              /\ last'.queried
              /\ last'.tx \in TxIds
              /\ paypal'[last'.tx] = "COMPLETED"
              /\ invoices'[i].paymentDetails.payerId = PayerOf(last'.tx).payerId
              /\ invoices'[i].paymentDetails.payerEmail = PayerOf(last'.tx).payerEmail
      /\ ( /\ last'.op \in {"pay", "public-pay"}
           /\ last'.queried
           /\ last'.tx \in TxIds
           /\ paypal[last'.tx] # "COMPLETED" )
         => /\ last'.code = 400
            /\ UNCHANGED <<invoices, orders>> ]_vars

(* C11: a create request whose orderType is none of vector, digitizing, patches,
   or that carries no file, or that lacks a field required for its type, is
   answered 400 and adds no order and no notification; for a patches order the
   400 message lists every missing patch field. *)
C11_InvalidCreateIs400 ==
  [][ ( /\ last'.op = "create"
        /\ \/ last'.arg.body.orderType \notin OrderTypes
           \/ ~last'.arg.body.hasFiles
           \/ ~(SchemaRequired(last'.arg.body.orderType) \subseteq last'.arg.body.present) )
      => /\ last'.code = 400
         /\ UNCHANGED <<orders, notifications>>
         /\ (last'.arg.body.orderType = "patches" /\ last'.arg.body.hasFiles)
              => last'.arg.listed = PatchFields \ last'.arg.body.present ]_vars

(* C12: the creation of a consolidated invoice over orders that do not all have
   the same customerId is answered 400, creates no invoice and changes no
   order's invoiceId, hasInvoice or invoiceStatus; and every invoice references
   only orders of the invoice's own customer. *)
C12_OneCustomerPerInvoice ==
  /\ [](\A i \in InvoiceIds : \A x \in LinkedOrders(invoices[i]) :
          orders[x].customerId = invoices[i].customerId)
  /\ [][ ( /\ last'.op = "invoice-consolidate"
           /\ last'.arg # {}
           /\ last'.arg \subseteq OrderIds
           /\ last'.code # 403
           /\ \E x, y \in last'.arg : orders[x].customerId # orders[y].customerId )
         => /\ last'.code = 400
            /\ UNCHANGED <<invoices, nextInvoiceId, orders>> ]_vars

(* the invoice over orders 1 (of c1) and 2 (of c2) was refused; the invoice over
   orders 2 and 3, both of c2, was the one created before *)
C12_MixedCustomersRefused ==
  /\ Answered("invoice-consolidate", 400) /\ last.arg = {1, 2}
  /\ orders[1].customerId # orders[2].customerId
  /\ steps = 1
  /\ \E i \in InvoiceIds : invoices[i].orders = {2, 3}

(* C13: after a successful invoice creation every order the new invoice
   references has invoiceId equal to the new invoice's id, hasInvoice true and
   invoiceStatus pending, and every other order is unchanged. *)
C13_InvoicedOrdersLinked ==
  [][ (last'.op \in {"invoice-create", "invoice-consolidate"} /\ last'.code = 201) =>
        LET iid == nextInvoiceId
            referenced == LinkedOrders(invoices'[iid])
        IN /\ iid \notin InvoiceIds
           /\ DOMAIN invoices' = InvoiceIds \cup {iid}
           /\ referenced = IF last'.op = "invoice-create" THEN {last'.id} ELSE last'.arg
           /\ DOMAIN orders' = OrderIds
           /\ \A x \in OrderIds :
                IF x \in referenced
                THEN /\ orders'[x].invoiceId = iid
                     /\ orders'[x].hasInvoice
                     /\ orders'[x].invoiceStatus = "pending"
                     /\ orders'[x] = [orders[x] EXCEPT !.invoiceId = iid, !.hasInvoice = TRUE,
                                                       !.invoiceStatus = "pending"]
                ELSE orders'[x] = orders[x] ]_vars

(* orders 2 and 3 of c2 share the new invoice 2; order 1 keeps invoice 1 *)
C13_TwoOrdersOneInvoice ==
  /\ Answered("invoice-consolidate", 201) /\ last.arg = {2, 3} /\ last.id = 2
  /\ orders[2].invoiceId = 2 /\ orders[2].hasInvoice /\ orders[2].invoiceStatus = "pending"
  /\ orders[3].invoiceId = 2 /\ orders[3].hasInvoice /\ orders[3].invoiceStatus = "pending"
  /\ orders[1].invoiceId = 1

(* C14: a bulk-assign of a list of orders to one employee keeps processing the
   remaining orders when the processing of one order fails: every order of the
   list whose own processing does not fail ends assigned to the employee, and
   the response reports the number of orders assigned. *)
C14_BulkAssignContinues ==
  [][ (last'.op = "bulk-assign" /\ last'.code \in {200, 500}) =>
        LET req == last'.arg
            processed == (req.orderIds \cap OrderIds) \ req.failing
        IN /\ \A x \in processed : orders'[x].assignedTo = req.employeeId
           /\ last'.count = Cardinality(processed) ]_vars

(* C15: through PUT /:id an order's status, rejectedReason, report and
   trackingNumber are changed only by an admin or by the employee the order is
   assigned to; the request of an employee the order is not assigned to, or of
   any other sender who is not the order's customer, is answered 403 and
   changes no field of the order. *)
C15_UpdateOnlyByAdminOrAssignee ==
  [][ (last'.op \in {"update", "update-notes"} /\ last'.actor # None) =>
        LET id == last'.id
            actor == last'.actor
            before == orders[id]
            after == orders'[id]
            authorized == \/ users[actor].role = "admin"
                          \/ (users[actor].role = "employee" /\ before.assignedTo = actor)
        IN /\ (~authorized /\ before.customerId # actor) =>
                (last'.code = 403 /\ UNCHANGED <<orders, users, notifications, invoices>>)
           /\ last'.code = 403 => (~authorized /\ before.customerId # actor)
           /\ ( \/ after.status # before.status
                \/ after.rejectedReason # before.rejectedReason
                \/ after.report # before.report
                \/ after.trackingNumber # before.trackingNumber ) => authorized ]_vars

(* order 1 went from e1 to e2, and e1's update of it is refused: nothing changed *)
C15_FormerAssigneeRefused ==
  /\ Answered("update", 403) /\ last.actor = "e1" /\ last.id = 1
  /\ orders[1].assignedTo = "e2"
  /\ orders[1].status = "In Progress"

(* C16: after any sequence of assign, bulk-assign, order delete and employee
   delete requests served one after the other to their end, for every existing
   employee E and order id O: O is in E.assignedOrders if and only if order O
   exists and O.assignedTo is E; a deleted order is in no assignedOrders, and no
   order is assigned to a deleted employee. *)
C16_BackReferencesInSync ==
  ~(last.op = "bulk-assign" /\ last.code = 500) =>
    /\ \A e \in UserIds :
         users[e].exists =>
           \A o \in users[e].assignedOrders \cup OrderIds :
              (o \in users[e].assignedOrders) <=> (o \in OrderIds /\ orders[o].assignedTo = e)
    /\ \A o \in OrderIds : orders[o].assignedTo # None => IsEmployee(orders[o].assignedTo)

(* order 1, assigned to e1, was deleted: e1 lists no order *)
C16_DeletedOrderPulled ==
  /\ Answered("delete", 200) /\ last.id = 1
  /\ 1 \notin OrderIds
  /\ users["e1"].exists
  /\ users["e1"].assignedOrders = {}

(* C17: in create order, assign, update status and invoice creation a failure of
   the email step undoes nothing: when the send throws, the order or invoice
   change and the notifications the handler wrote are persisted, and the request
   is answered with success. *)
C17_MailFailureKeepsWrites ==
  [][ (last'.mail = "failed") =>
        /\ last'.op \in {"create", "assign", "update", "invoice-create", "invoice-consolidate"}
        /\ last'.code \in {200, 201}
        /\ notifications' = notifications \o last'.created
        /\ last'.op = "create" =>
              /\ last'.id \in DOMAIN orders' \ OrderIds
              /\ Len(last'.created) = 1 + Cardinality(AdminUsers)
        /\ last'.op = "assign" =>
              /\ orders'[last'.id].assignedTo = last'.arg
              /\ last'.id \in users'[last'.arg].assignedOrders
              /\ Len(last'.created) = 1
        /\ last'.op = "update" =>
              /\ last'.arg.status # Absent => orders'[last'.id].status = last'.arg.status
              /\ last'.created # <<>>
        /\ last'.op \in {"invoice-create", "invoice-consolidate"} =>
              /\ DOMAIN invoices' = InvoiceIds \cup {nextInvoiceId}
              /\ \A x \in LinkedOrders(invoices'[nextInvoiceId]) :
                    orders'[x].invoiceId = nextInvoiceId ]_vars

(* the status email of the update of order 1 to Completed could not be sent: the
   order is Completed, the customer holds the notification, the answer is 200 *)
C17_StatusMailFailed ==
  /\ Answered("update", 200) /\ last.mail = "failed" /\ last.id = 1
  /\ orders[1].status = "Completed"
  /\ notifications[Len(notifications)] =
       Notif("c1", 1, "order_status_changed", <<"status", "Completed">>)

(* C18: Completed, Rejected, Cancelled and Superseded are terminal: once an
   order's status is one of them, no later request (update, sample or revision
   upload, approval of pending work, create-revision, payment capture) changes
   that order's status. *)
C18_TerminalStatusesStay ==
  [][ \A x \in OrderIds \cap DOMAIN orders' :
        orders[x].status \in {"Completed", "Rejected", "Cancelled", "Superseded"} =>
           orders'[x].status = orders[x].status ]_vars

(* C19: a revision order is created only from a parent whose status is
   Completed: a create-revision on a parent in any other status creates no order
   and leaves the parent's status as it was. *)
C19_RevisionOnlyFromCompleted ==
  [][ last'.op = "create-revision" =>
        /\ DOMAIN orders' # OrderIds => orders[last'.arg].status = "Completed"
        /\ \A x \in OrderIds :
             orders[x].status # "Completed" => orders'[x].status = orders[x].status ]_vars

(* C20: every lifecycle transition writes exactly one notification per
   recipient: a successful create order writes one order_created notification
   for the customer and one for each admin account, and a successful
   create-revision writes one revision_requested notification for each admin. *)
C20_OneNotificationPerRecipient ==
  [][ /\ (last'.op = "create" /\ last'.code = 201) =>
           LET created == last'.created
               For(u) == {i \in OfType(created, "order_created") :
                            created[i].userId = u /\ created[i].orderId = last'.id}
           IN /\ notifications' = notifications \o created
              /\ Cardinality(For(last'.actor)) = 1
              /\ \A a \in AdminUsers : Cardinality(For(a)) = 1
              /\ Len(created) = 1 + Cardinality(AdminUsers)
      /\ (last'.op = "create-revision" /\ last'.code = 201) =>
           LET created == last'.created
               For(u) == {i \in OfType(created, "revision_requested") :
                            created[i].userId = u /\ created[i].orderId = last'.id}
           IN /\ notifications' = notifications \o created
              /\ \A a \in AdminUsers : Cardinality(For(a)) = 1 ]_vars

(* C21: a lifecycle request (assign, bulk-assign, update, delete, customer approve
   and revision-request, sample and revision upload, create-revision,
   employee-submit, admin approve and reject of pending work) that is answered
   400, 403 or 404 leaves every Order, User, Invoice and Notification document
   as it was before the request. *)
C21_RejectedChangesNothing ==
  [][ ( /\ last'.op \in {"assign", "bulk-assign", "update", "update-notes", "delete",
                         "approve", "revision-request", "revision-approve", "sample",
                         "revision", "create-revision", "employee-submit",
                         "admin-approve-work", "admin-reject-work"}
        /\ last'.code \in {400, 403, 404} )
      => UNCHANGED <<users, orders, invoices, notifications>> ]_vars

(* order 1 went from e1 to e2, and e1's submission for it is refused: the order
   holds no pending work *)
C21_SubmitRefusedAfterReassign ==
  /\ Answered("employee-submit", 403) /\ last.id = 1
  /\ orders[1].assignedTo = "e2"
  /\ ~orders[1].employeePendingWork.hasPendingWork

(* C22: while the work an employee submitted for an order has not been approved
   by an admin, the content of employeePendingWork (pendingFiles, pendingStatus,
   pendingReport) reaches only admins and the submitting employee: no order
   listing answered to the owning customer and no event pushed to the customer's
   room contains it. *)
C22_PendingWorkHiddenFromCustomer ==
  /\ (Answered("list", 200) /\ RoleOf(last.actor) = "customer") =>
        \A x \in DOMAIN last.arg :
           "employeePendingWork" \in DOMAIN last.arg[x] =>
              ~last.arg[x].employeePendingWork.hasPendingWork
  /\ \A e \in OrderUpdateEvents :
        (RoleOf(e.room) = "customer" /\ "employeePendingWork" \in DOMAIN e.order) =>
           ~e.order.employeePendingWork.hasPendingWork

(* C23: a Notification, once created, is never deleted, and none of its fields
   but isRead ever changes; isRead goes from false to true only, and only in a
   mark-read request of the notification's own recipient; the mark-read of a
   notification by another user is answered 403 and changes nothing. *)
C23_NotificationsOnlyMarkedRead ==
  [][ /\ NotificationIds \subseteq DOMAIN notifications'
      /\ \A i \in NotificationIds :
           /\ [notifications'[i] EXCEPT !.isRead = notifications[i].isRead] = notifications[i]
           /\ notifications[i].isRead => notifications'[i].isRead
           /\ (notifications'[i].isRead /\ ~notifications[i].isRead) =>
                 /\ last'.op \in {"mark-read", "mark-all-read"}
                 /\ last'.code = 200
                 /\ last'.actor = notifications[i].userId
      /\ ( /\ last'.op = "mark-read"
           /\ last'.id \in NotificationIds
           /\ last'.actor # notifications[last'.id].userId )
         => /\ last'.code = 403
            /\ UNCHANGED <<notifications, users, orders, invoices>> ]_vars

(* c1 marked the notification of the creation of order 1 as read: it is the
   notification it was, read *)
C23_OwnNotificationRead ==
  /\ Answered("mark-read", 200) /\ last.actor = "c1" /\ last.id = 1
  /\ notifications[1] = [Notif("c1", 1, "order_created", NoText) EXCEPT !.isRead = TRUE]
  /\ \A i \in NotificationIds \ {1} : ~notifications[i].isRead

(* C24: a successful sample upload by an admin appends the uploaded images to
   sampleImages with type initial and sets the status to Waiting for Approval; a
   successful revision upload appends them with type revision and sets the
   status to Revision Ready; in both the entries stored before are kept, unchanged
   and in their order, whichever form (URL list, single URL, direct file) the
   request used. *)
C24_UploadAppends ==
  [][ (last'.op \in {"sample", "revision"} /\ last'.code = 200) =>
        LET id == last'.id
            form == last'.arg
            before == orders[id].sampleImages
            after == orders'[id].sampleImages
            type == IF last'.op = "sample" THEN "initial" ELSE "revision"
        IN /\ users[last'.actor].role = "admin"
           /\ form.kind \in {"files", "cloudinaryUrl", "file"}
           /\ Len(after) = Len(before) + Len(form.urls)
           /\ \A i \in DOMAIN before : after[i] = before[i]
           /\ \A i \in DOMAIN form.urls :
                /\ after[Len(before) + i].url = form.urls[i]
                /\ after[Len(before) + i].type = type
           /\ orders'[id].status =
                IF last'.op = "sample" THEN "Waiting for Approval" ELSE "Revision Ready"
           /\ orders' = [orders EXCEPT ![id].sampleImages = after,
                                       ![id].status = orders'[id].status] ]_vars

(* order 3 held the initial sample s1; the revision upload of the list s1, s2 put
   two revision entries after it *)
C24_RevisionAfterSample ==
  /\ Answered("revision", 200) /\ last.id = 3 /\ last.arg.kind = "files"
  /\ orders[3].sampleImages = <<SampleImage("s1", "initial", ""), SampleImage("s1", "revision", ""),
                                SampleImage("s2", "revision", "")>>
  /\ orders[3].status = "Revision Ready"

(* C25: the requests of an order's customer on the order leave its status as it
   is: the owner's update of the notes through PUT /:id, approve,
   revision-request and revision-approve change neither status nor sampleImages
   nor assignedTo of the order, whatever the body carries (a status included)
   and whatever status the order has; and a customer's PUT /:id never takes the
   staff branch. *)
C25_CustomerPathKeepsStatus ==
  [][ /\ ( /\ last'.op \in {"update-notes", "approve", "revision-request", "revision-approve"}
           /\ last'.code = 200 )
         => LET id == last'.id IN
            /\ orders[id].customerId = last'.actor
            /\ DOMAIN orders' = OrderIds
            /\ orders'[id].status = orders[id].status
            /\ orders'[id].sampleImages = orders[id].sampleImages
            /\ orders'[id].assignedTo = orders[id].assignedTo
            /\ \A x \in OrderIds \ {id} : orders'[x] = orders[x]
      /\ (last'.op = "update" /\ last'.code = 200) => users[last'.actor].role # "customer" ]_vars

(* c1's PUT on the own order 1 carried status Rejected and a note: the note was
   stored, the order is In Progress and assigned to e1 as before *)
C25_OwnerStatusIgnored ==
  /\ Answered("update-notes", 200) /\ last.actor = "c1" /\ last.id = 1
  /\ last.arg.status = "Rejected"
  /\ orders[1].notes = <<"n1">>
  /\ orders[1].status = "In Progress"
  /\ orders[1].assignedTo = "e1"

(* C26: a successful staff update creates one tracking_number_added notification
   for the customer if and only if the request's trackingNumber is not empty,
   differs from the order's trackingNumber before the request, the order is a
   patches order and the customer's account exists; whether the status changed
   in the same request plays no part. *)
C26_TrackingNotification ==
  [][ (last'.op = "update" /\ last'.code = 200) =>
        LET id == last'.id
            body == last'.arg
            made == OfType(last'.created, "tracking_number_added")
            due == /\ body.trackingNumber \notin {Absent, ""}
                   /\ body.trackingNumber # orders[id].trackingNumber
                   /\ orders[id].orderType = "patches"
                   /\ users[orders[id].customerId].exists
        IN /\ notifications' = notifications \o last'.created
           /\ Cardinality(made) = IF due THEN 1 ELSE 0
           /\ \A i \in made : /\ last'.created[i].userId = orders[id].customerId
                              /\ last'.created[i].orderId = id ]_vars

(* patches order 3 was given TRK1 in a request without a status: the customer
   holds the tracking notification, the status is what it was *)
C26_TrackingWithoutStatus ==
  /\ Answered("update", 200) /\ last.id = 3
  /\ last.arg.status = Absent /\ last.arg.trackingNumber = "TRK1"
  /\ last.created = <<Notif("c2", 3, "tracking_number_added", <<"tracking", "TRK1">>)>>
  /\ orders[3].trackingNumber = "TRK1"
  /\ orders[3].status = "Waiting for Approval"

(* C26 as the specification words it: the notification is created whenever the
   request's trackingNumber differs from the order's previous one and the order
   is a patches order *)
C26_TrackingWheneverDifferent ==
  [][ (last'.op = "update" /\ last'.code = 200) =>
        LET id == last'.id
            body == last'.arg
            made == OfType(last'.created, "tracking_number_added")
            due == /\ body.trackingNumber # Absent
                   /\ body.trackingNumber # orders[id].trackingNumber
                   /\ orders[id].orderType = "patches"
        IN Cardinality(made) = IF due THEN 1 ELSE 0 ]_vars

(* C27: Assign is not atomic across the Order and User documents. Requests for
   one order served one after the other to their end leave assignedOrders in
   agreement with assignedTo; the steps of two requests interleaved, or a request
   ended between the order save and the User updates, can leave them in
   disagreement. *)
C27_SerialAssignsAgree ==
  (\A r \in Requests : inflight[r].pc = "start" \/ (inflight[r].pc = "done" /\ inflight[r].alone))
    => \A e \in Employees :
          (AssignedOrder \in users[e].assignedOrders) <=> (orders[AssignedOrder].assignedTo = e)

(* two requests, for e1 and for e2, both answered 200: order 1 is assigned to e2,
   and both e1 and e2 list it *)
C27_BothListTheOrder ==
  /\ \A r \in Requests : inflight[r].pc = "done"
  /\ \E r \in Requests : ~inflight[r].alone
  /\ orders[AssignedOrder].assignedTo = "e2"
  /\ AssignedOrder \in users["e1"].assignedOrders
  /\ AssignedOrder \in users["e2"].assignedOrders

(* C28: after any sequence of create-revision and order delete requests, the
   revision orders of one parent that exist carry pairwise distinct
   revisionNumber values. *)
C28_RevisionNumbersDistinct ==
  \A x, y \in OrderIds :
     ( /\ x # y
       /\ orders[x].isRevision /\ orders[y].isRevision
       /\ orders[x].parentOrderId = orders[y].parentOrderId )
     => orders[x].revisionNumber # orders[y].revisionNumber

(* C29: after any sequence of invoice creations and payments, every order whose
   invoiceStatus is paid has an invoiceId that refers to an invoice whose
   paymentStatus is paid, also when a second invoice was created for an order
   that had one and the earlier invoice is paid afterwards. *)
C29_PaidOrderHasPaidInvoice ==
  \A x \in OrderIds :
     orders[x].invoiceStatus = "paid" =>
        /\ orders[x].invoiceId \in InvoiceIds
        /\ invoices[orders[x].invoiceId].paymentStatus = "paid"

(* C30: in every reachable state an order whose employeePendingWork.hasPendingWork
   is true has employeePendingWork.submittedBy equal to its assignedTo, also
   after the order was reassigned, bulk-reassigned, or its assignee deleted
   between submission and review. *)
C30_SubmitterIsAssignee ==
  \A x \in OrderIds :
     orders[x].employeePendingWork.hasPendingWork =>
        orders[x].employeePendingWork.submittedBy = orders[x].assignedTo
====
